---- MODULE Spec2Model ----
(***************************************************************************)
(* zenc: the command-line driver of libslz (src/src/zenc.c, main).         *)
(*                                                                         *)
(* The state of one run of main() is a record whose fields are main's      *)
(* local variables (named as in the source), the part of the operating     *)
(* system the run talks to (the input file, the output destination, the    *)
(* allocations) and a few observation fields that count the calls made.    *)
(* One step operator per stretch of main(); an action applies a step       *)
(* operator to the record `run`.  A second record, `twin`, is used only by *)
(* SpecTwin, which runs two processes side by side on the same input, and  *)
(* `io`, the bytes in the staging buffer and at the destination, only by   *)
(* SpecBytes.                                                              *)
(***************************************************************************)
EXTENDS Integers, Sequences, FiniteSets, TLC

VARIABLES run, twin, io

vars == <<run, twin, io>>

----------------------------------------------------------------------------
(* Bounds of the model *)

\* longest command line tried, in options (with their values) and file names
MaxArgs == 3

\* largest pass count (-l) tried
MaxLoops == 2
\* input sizes and byte caps go up to MaxBlocks input blocks (plus one byte)
MaxBlocks == 2
\* a pass is cut after this many read() calls: two more than the longest input
\* needs, so that a pass that read() cannot bring to its end is seen not to end
MaxReads == MaxBlocks + 2

----------------------------------------------------------------------------
(* Program constants *)

\* block_size = 32768
BASE_BLOCK == 32768
\* calloc(1, outbsize + 4096)
HEADROOM == 4096

SLZ_FMT_GZIP == "gzip"
SLZ_FMT_ZLIB == "zlib"
SLZ_FMT_DEFLATE == "deflate"
Formats == {SLZ_FMT_GZIP, SLZ_FMT_ZLIB, SLZ_FMT_DEFLATE}

Levels == 0..9

Min(a, b) == IF a < b THEN a ELSE b

----------------------------------------------------------------------------
(* The external encoder (slz.h): only what main() relies on *)

\* longest trailer slz_finish() may return
FinOverhead == 8
\* largest framing overhead of one slz_encode() call: with the trailer it
\* fits in the headroom of the staging buffer
EncOverhead == HEADROOM - FinOverhead

\* what the encoder makes of a chunk depends on the bytes in it: they compress
\* (to a quarter), are stored as they are, or are stored with the largest
\* framing overhead
Contents == {"compress", "store", "expand"}

\* the length slz_encode() returns for a chunk of ilen bytes of content c
EncodeLen(ilen, more, c) ==
    CASE c = "compress" -> ilen \div 4
      [] c = "store"    -> ilen
      [] OTHER          -> ilen + EncOverhead

EncodeLens(ilen, more) == { EncodeLen(ilen, more, c) : c \in Contents }

\* the lengths slz_finish() may return: a non-empty trailer
FinishLens == {1, FinOverhead}

\* values of the 32-bit checksum, folded to a small range
CrcMod == 7
CrcVals == 0..(CrcMod - 1)

\* the running checksum after ilen more input bytes
CrcUpdate(crc, ilen) == (crc * 3 + ilen + 1) % CrcMod

\* slz_init(&strm, level, format)
slz_init(lvl, fmt) ==
    [state |-> "live", level |-> lvl, format |-> fmt, crc32 |-> 0]

\* struct slz_stream strm, before any slz_init()
StrmUninit == [state |-> "uninit", level |-> 0, format |-> SLZ_FMT_GZIP, crc32 |-> 0]

----------------------------------------------------------------------------
(* Buffer sizing, lines 201-208 *)

\* as BlockSizeOf, with level 2 given the largest block
BlockSizeOfGe(level) ==
    LET b0 == BASE_BLOCK
        b1 == IF level > 1 THEN b0 * 4 ELSE b0
        b2 == IF level >= 2 THEN b1 * 8 ELSE b1
    IN  b2

BlockSizeOf(level) ==
    LET b0 == BASE_BLOCK
        b1 == IF level > 1 THEN b0 * 4 ELSE b0
        b2 == IF level > 2 THEN b1 * 8 ELSE b1
    IN  b2

OutbSizeOf(block_size) == 2 * block_size

\* bytes allocated for outbuf
OutbAllocOf(outbsize) == outbsize + HEADROOM

----------------------------------------------------------------------------
(* Process exit *)

NoSummary == [printed |-> FALSE, totin |-> 0, totout |-> 0, divisor |-> 1, crc32 |-> 0]

\* exit(code), die(code, ...) and the return from main; at names the place
Exit(s, code, at) == [s EXCEPT !.pc = "exit", !.exitcode = code, !.exitat = at]

----------------------------------------------------------------------------
(* The conditions of main(), one operator each *)

\* as RefuseTerminal, with the sense of -f inverted
RefuseTerminalInv(tty, test, force) == tty /\ ~test /\ force

\* line 195: isatty(1) && !test && !force
RefuseTerminal(tty, test, force) == tty /\ ~test /\ ~force

\* as LoopCond, for a loop that tests loops-- >= 0
LoopCondGe(loops) == loops >= 0

\* line 233: while (loops--)
LoopCond(loops) == loops # 0

\* as LastChunk, with a remainder of exactly one block taken for a last chunk
LastChunkLe(toread, block_size) == toread <= block_size

\* as LastChunk, with an empty remainder not taken for a last chunk
LastChunkNonEmpty(toread, block_size) == 0 < toread /\ toread < block_size

\* line 239: toread < (uint32_t)block_size
LastChunk(toread, block_size) == toread < block_size

\* as NeedFlush, flushing already when exactly one block of room is left
NeedFlushGe(outblen, block_size, outbsize) == outblen + block_size >= outbsize

\* as NeedFlush, with the headroom counted as room for the next block
NeedFlushAlloc(outblen, block_size, outbsize) ==
    outblen + block_size > outbsize + HEADROOM

\* line 254: outblen + block_size > outbsize
NeedFlush(outblen, block_size, outbsize) == outblen + block_size > outbsize

\* as MayWrite, without the test of the error flag
MayWriteRetry(console, test, error) == console /\ ~test

\* lines 256 and 266: console && !test && !error
MayWrite(console, test, error) == console /\ ~test /\ error = 0

\* read(fd, buffer, count) on a regular file of fsize bytes at offset fpos
ReadLen(fsize, fpos, count) == Min(count, fsize - fpos)

----------------------------------------------------------------------------
(* The steps of main() *)

\* lines 256-258 and 266-268: the guarded write(1, outbuf, outblen); wok is
\* whether the write succeeds
Sink(s, wok) ==
    IF MayWrite(s.console, s.test, s.error)
    THEN IF wok
         THEN [s EXCEPT !.nwrite = @ + 1, !.pnwrite = @ + 1,
                        !.wbytes = @ + s.outblen, !.pwbytes = @ + s.outblen]
         ELSE [s EXCEPT !.nwrite = @ + 1, !.pnwrite = @ + 1,
                        !.error = 1, !.wfailed = TRUE]
    ELSE s

\* lines 195-196; tty is what isatty(1) answers
DoTty(s, tty) ==
    IF RefuseTerminal(tty, s.test, s.force)
    THEN Exit([s EXCEPT !.tty = tty], 1, "tty")
    ELSE [s EXCEPT !.tty = tty, !.pc = "size"]

\* lines 198-212; ok is whether calloc succeeds
DoSize(s, ok) ==
    LET bs == BlockSizeOf(s.level)
        t  == [s EXCEPT !.block_size = bs, !.outbsize = OutbSizeOf(bs)]
    IN  IF ok
        THEN [t EXCEPT !.outbcap = OutbAllocOf(t.outbsize), !.pc = "resolve"]
        ELSE Exit(t, 1, "calloc outbuf")

\* lines 219-231; r is "ok", or which of fstat and calloc fails
DoResolve(s, r) ==
    IF s.toread < 0 /\ r = "fstat"
    THEN Exit(s, 1, "fstat")
    ELSE LET t == IF s.toread < 0 THEN [s EXCEPT !.toread = s.fsize] ELSE s
         IN  IF r = "calloc"
             THEN Exit(t, 1, "calloc buffer")
             ELSE [t EXCEPT !.pc = "loop", !.toread0 = t.toread]

\* as DoLoop, with the staging buffer's fill left as the last pass left it
DoLoopNoReset(s) ==
    IF s.loops # 0
    THEN [s EXCEPT !.loops = @ - 1,
                   !.strm = slz_init(IF s.level # 0 THEN 1 ELSE 0, s.format),
                   !.count = s.block_size,
                   !.more = 1,
                   !.pc = "read",
                   !.ninit = @ + 1, !.pass = @ + 1,
                   !.p_toread = s.toread, !.p_totin = s.totin,
                   !.pnread = 0, !.penc = 0, !.pfinal = 0, !.pfin = 0,
                   !.pprod = 0,
                   !.pnwrite = 0, !.pwbytes = 0]
    ELSE [s EXCEPT !.loops = @ - 1, !.pc = "report"]

\* lines 233-237
DoLoop(s) ==
    IF LoopCond(s.loops)
    THEN [s EXCEPT !.loops = @ - 1,
                   !.strm = slz_init(IF s.level # 0 THEN 1 ELSE 0, s.format),
                   !.count = s.block_size,
                   !.more = 1,
                   !.outblen = 0,
                   !.pc = "read",
                   !.ninit = @ + 1, !.pass = @ + 1,
                   !.p_toread = s.toread, !.p_totin = s.totin,
                   !.pnread = 0, !.penc = 0, !.pfinal = 0, !.pfin = 0,
                   !.pprod = 0,
                   !.pnwrite = 0, !.pwbytes = 0]
    ELSE [s EXCEPT !.loops = @ - 1, !.pc = "report"]

\* as DoRead, with the length asked for, not the length read, taken off toread
DoReadCount(s, ok) ==
    LET last == s.toread < s.block_size
        t    == IF last THEN [s EXCEPT !.count = s.toread, !.more = 0] ELSE s
        ret  == Min(t.count, t.fsize - t.fpos)
    IN  IF ~ok
        THEN [t EXCEPT !.nread = @ + 1, !.pnread = @ + 1, !.readfailed = TRUE,
                       !.pc = "exit", !.exitcode = 2, !.exitat = "read"]
        ELSE [t EXCEPT !.ret = ret,
                       !.fpos = @ + ret,
                       !.toread = @ - t.count,
                       !.totin = @ + ret,
                       !.nread = @ + 1, !.pnread = @ + 1,
                       !.pc = "encode"]

\* as DoRead, with a failed read() ending the pass instead of the process
DoReadBreak(s, ok) ==
    LET last == s.toread < s.block_size
        t    == IF last THEN [s EXCEPT !.count = s.toread, !.more = 0] ELSE s
        ret  == IF ok THEN Min(t.count, t.fsize - t.fpos) ELSE 0
    IN  [t EXCEPT !.ret = ret,
                  !.fpos = @ + ret,
                  !.toread = @ - ret,
                  !.totin = @ + ret,
                  !.more = IF ok THEN @ ELSE 0,
                  !.readfailed = ~ok,
                  !.nread = @ + 1, !.pnread = @ + 1,
                  !.pc = "encode"]

\* lines 239-251; ok is whether read() succeeds
DoRead(s, ok) ==
    LET last == LastChunk(s.toread, s.block_size)
        t    == IF last THEN [s EXCEPT !.count = s.toread, !.more = 0] ELSE s
        ret  == ReadLen(t.fsize, t.fpos, t.count)
    IN  IF ~ok
        THEN Exit([t EXCEPT !.nread = @ + 1, !.pnread = @ + 1, !.readfailed = TRUE], 2, "read")
        ELSE [t EXCEPT !.ret = ret,
                       !.fpos = @ + ret,
                       !.toread = @ - ret,
                       !.totin = @ + ret,
                       !.nread = @ + 1, !.pnread = @ + 1,
                       !.pc = "encode"]

\* line 253; c is the content of the chunk
DoEncode(s, c) ==
    LET n == EncodeLen(s.ret, s.more, c)
    IN
    [s EXCEPT !.outblen = @ + n,
              !.strm.crc32 = CrcUpdate(@, s.ret),
              !.nenc = @ + 1, !.penc = @ + 1,
              !.pfinal = IF s.more = 0 THEN @ + 1 ELSE @,
              !.produced = @ + n, !.pprod = @ + n,
              !.pc = "flush"]

\* as DoFlush, with only the bytes handed to write() counted in totout
DoFlushCountWritten(s, wok) ==
    LET t == IF s.outblen + s.block_size > s.outbsize
             THEN IF s.console /\ ~s.test /\ s.error = 0
                  THEN [Sink(s, wok) EXCEPT !.totout = @ + s.outblen,
                                             !.outblen = 0, !.nflush = @ + 1]
                  ELSE [s EXCEPT !.outblen = 0, !.nflush = @ + 1]
             ELSE s
    IN  [t EXCEPT !.pc = IF t.more # 0 THEN "read" ELSE "finish"]

\* as DoFlush, with the fill offset not reset after the write
DoFlushKeep(s, wok) ==
    LET t == IF s.outblen + s.block_size > s.outbsize
             THEN [Sink(s, wok) EXCEPT !.totout = @ + s.outblen,
                                        !.nflush = @ + 1]
             ELSE s
    IN  [t EXCEPT !.pc = IF t.more # 0 THEN "read" ELSE "finish"]

\* as DoFlush, with the pass left after the final chunk without slz_finish()
DoFlushSkipFinish(s, wok) ==
    LET t == IF s.outblen + s.block_size > s.outbsize
             THEN [Sink(s, wok) EXCEPT !.totout = @ + s.outblen, !.outblen = 0,
                                        !.nflush = @ + 1]
             ELSE s
    IN  [t EXCEPT !.pc = IF t.more # 0 THEN "read" ELSE "loop"]

\* lines 254-262; wok is whether the write, if one is made, succeeds
DoFlush(s, wok) ==
    LET t == IF NeedFlush(s.outblen, s.block_size, s.outbsize)
             THEN [Sink(s, wok) EXCEPT !.totout = @ + s.outblen, !.outblen = 0,
                                        !.nflush = @ + 1]
             ELSE s
    IN  [t EXCEPT !.pc = IF t.more # 0 THEN "read" ELSE "finish"]

\* as DoFinish, with the last write made only when the buffer is nearly full
DoFinishChecked(s, n, wok) ==
    LET t == [s EXCEPT !.outblen = @ + n,
                       !.totout = @ + s.outblen + n,
                       !.strm.state = "finished",
                       !.nfin = @ + 1, !.pfin = @ + 1,
                       !.produced = @ + n, !.pprod = @ + n]
        u == IF t.outblen + t.block_size > t.outbsize THEN Sink(t, wok) ELSE t
    IN  [u EXCEPT !.pc = "loop",
                  !.passin = Append(@, t.totin - t.p_totin)]

\* lines 264-268; n is the length slz_finish() returns
DoFinish(s, n, wok) ==
    LET t == [s EXCEPT !.outblen = @ + n,
                       !.totout = @ + s.outblen + n,
                       !.strm.state = "finished",
                       !.nfin = @ + 1, !.pfin = @ + 1,
                       !.produced = @ + n, !.pprod = @ + n]
    IN  [Sink(t, wok) EXCEPT !.pc = "loop",
                             !.passin = Append(@, t.totin - t.p_totin)]

\* lines 270-272; g is what an uninitialized strm.crc32 happens to hold
DoReport(s, g) ==
    IF s.verbose > 0
    THEN [s EXCEPT !.summary = [printed |-> TRUE,
                                totin   |-> s.totin,
                                totout  |-> s.totout,
                                divisor |-> s.totin,
                                crc32   |-> IF s.strm.state = "uninit" THEN g
                                            ELSE s.strm.crc32],
                   !.pc = "return"]
    ELSE [s EXCEPT !.pc = "return"]

\* what line 272 may find in strm.crc32: anything if no slz_init() has set it
CrcRead(s) ==
    IF s.verbose > 0 /\ s.strm.state = "uninit" THEN CrcVals ELSE {s.strm.crc32}

\* line 274
DoReturn(s) == Exit(s, s.error, "return")

----------------------------------------------------------------------------
(* Initial states: main() after the command line has been parsed (line 193) *)

\* the block size the usage text and the comments of lines 203 and 205 give
\* for a level: 32 kB, 128 kB, 1 MB
LevelBlock(level) ==
    CASE level <= 1 -> 32768
      [] level = 2  -> 131072
      [] OTHER      -> 1048576

\* input sizes: the multiples of the block of a level, one byte more, and one
\* byte less than a block
Sizes(level) ==
    { k * LevelBlock(level) + d : k \in 0..MaxBlocks, d \in {0, 1} }
        \cup { LevelBlock(level) - 1 }

\* values of -b: absent (-1), or a byte cap
Caps(level) == {-1, 0, 1} \cup { k * LevelBlock(level) : k \in 1..MaxBlocks }

InitRun(level, cap, fsize, loops, test, force, verbose, format) ==
    [ pc |-> "tty",
      \* the locals of main(), lines 103-122, as the options set them
      level |-> level, toread |-> cap, loops |-> loops, console |-> TRUE,
      verbose |-> verbose, test |-> test, format |-> format, force |-> force,
      error |-> 0, totin |-> 0, totout |-> 0,
      \* not yet assigned
      block_size |-> 0, outbsize |-> 0, outblen |-> 0, count |-> 0, more |-> 0,
      ret |-> 0, strm |-> StrmUninit,
      \* the environment: the input file, the allocation behind outbuf, the
      \* answer of isatty(1), the exit status, the line printed on stderr
      fsize |-> fsize, fpos |-> 0, outbcap |-> 0, tty |-> FALSE,
      exitcode |-> -1, exitat |-> "", summary |-> NoSummary,
      \* observation: calls made so far, in the run and in the current pass
      loops0 |-> loops, toread0 |-> -1, pass |-> 0, passin |-> << >>,
      ninit |-> 0, nread |-> 0, nenc |-> 0, nfin |-> 0, nwrite |-> 0,
      nflush |-> 0, wbytes |-> 0, produced |-> 0,
      p_toread |-> 0, p_totin |-> 0, pnread |-> 0, penc |-> 0, pfinal |-> 0,
      pfin |-> 0,
      pprod |-> 0, pnwrite |-> 0, pwbytes |-> 0,
      wfailed |-> FALSE, readfailed |-> FALSE ]

\* main() compares level with 0, 1 and 2 only (lines 202, 204, 234): the levels
\* up to 3 are run with every byte cap, input size and pass count, under the
\* default format and without -f
CoreRuns ==
    UNION { { InitRun(level, cap, fsize, loops, test, FALSE, verbose, SLZ_FMT_GZIP) :
                cap \in Caps(level), fsize \in Sizes(level),
                loops \in 0..MaxLoops, test \in BOOLEAN, verbose \in 0..1 } :
            level \in 0..3 }

\* every level, format and -f/-t combination is run for one pass over the
\* whole of every input size
OptionRuns ==
    UNION { { InitRun(level, -1, fsize, 1, test, force, 1, format) :
                fsize \in Sizes(level), test \in BOOLEAN, force \in BOOLEAN,
                format \in Formats } :
            level \in Levels }

InitRuns == CoreRuns \cup OptionRuns

\* the second process is not started
Idle == [pc |-> "idle"]

\* no byte is followed
NoBytes == [mem |-> <<>>, sink |-> <<>>, calls |-> <<>>]

Init == run \in InitRuns /\ twin = Idle /\ io = NoBytes

----------------------------------------------------------------------------
(* Actions: one per step of main() *)

CheckTty ==
    /\ run.pc = "tty"
    /\ \E tty \in BOOLEAN : run' = DoTty(run, tty)
    /\ UNCHANGED <<twin, io>>

Size ==
    /\ run.pc = "size"
    /\ \E ok \in BOOLEAN : run' = DoSize(run, ok)
    /\ UNCHANGED <<twin, io>>

Resolve ==
    /\ run.pc = "resolve"
    /\ \E r \in {"ok", "fstat", "calloc"} : run' = DoResolve(run, r)
    /\ UNCHANGED <<twin, io>>

Loop ==
    /\ run.pc = "loop"
    /\ run' = DoLoop(run)
    /\ UNCHANGED <<twin, io>>

Read ==
    /\ run.pc = "read"
    /\ run.pnread < MaxReads
    /\ \E ok \in BOOLEAN : run' = DoRead(run, ok)
    /\ UNCHANGED <<twin, io>>

Encode ==
    /\ run.pc = "encode"
    /\ \E c \in Contents : run' = DoEncode(run, c)
    /\ UNCHANGED <<twin, io>>

Flush ==
    /\ run.pc = "flush"
    /\ \E wok \in BOOLEAN : run' = DoFlush(run, wok)
    /\ UNCHANGED <<twin, io>>

Finish ==
    /\ run.pc = "finish"
    /\ \E n \in FinishLens, wok \in BOOLEAN : run' = DoFinish(run, n, wok)
    /\ UNCHANGED <<twin, io>>

Report ==
    /\ run.pc = "report"
    /\ \E g \in CrcRead(run) : run' = DoReport(run, g)
    /\ UNCHANGED <<twin, io>>

Return ==
    /\ run.pc = "return"
    /\ run' = DoReturn(run)
    /\ UNCHANGED <<twin, io>>

Next ==
    \/ CheckTty
    \/ Size
    \/ Resolve
    \/ Loop
    \/ Read
    \/ Encode
    \/ Flush
    \/ Finish
    \/ Report
    \/ Return

Spec == Init /\ [][Next]_vars

----------------------------------------------------------------------------
(* Two processes on the same input, level, format, byte cap and pass count,  *)
(* `run` without -t and `twin` with -t.  They take the same step at the same *)
(* time and the environment answers both alike: the file has the same bytes, *)
(* the encoder returns the same for the same chunk.  What an uninitialized   *)
(* strm.crc32 holds is chosen for each process.                              *)

InitTwin ==
    /\ run \in { r \in InitRuns : ~r.test }
    /\ twin = [run EXCEPT !.test = TRUE]
    /\ io = NoBytes

TwinCheckTty ==
    /\ run.pc = "tty" /\ twin.pc = "tty"
    /\ \E tty \in BOOLEAN : run' = DoTty(run, tty) /\ twin' = DoTty(twin, tty)
    /\ UNCHANGED io

TwinSize ==
    /\ run.pc = "size" /\ twin.pc = "size"
    /\ \E ok \in BOOLEAN : run' = DoSize(run, ok) /\ twin' = DoSize(twin, ok)
    /\ UNCHANGED io

TwinResolve ==
    /\ run.pc = "resolve" /\ twin.pc = "resolve"
    /\ \E r \in {"ok", "fstat", "calloc"} :
          run' = DoResolve(run, r) /\ twin' = DoResolve(twin, r)
    /\ UNCHANGED io

TwinLoop ==
    /\ run.pc = "loop" /\ twin.pc = "loop"
    /\ run' = DoLoop(run) /\ twin' = DoLoop(twin)
    /\ UNCHANGED io

TwinRead ==
    /\ run.pc = "read" /\ twin.pc = "read"
    /\ run.pnread < MaxReads /\ twin.pnread < MaxReads
    /\ \E ok \in BOOLEAN : run' = DoRead(run, ok) /\ twin' = DoRead(twin, ok)
    /\ UNCHANGED io

TwinEncode ==
    /\ run.pc = "encode" /\ twin.pc = "encode"
    /\ \E c \in Contents : run' = DoEncode(run, c) /\ twin' = DoEncode(twin, c)
    /\ UNCHANGED io

TwinFlush ==
    /\ run.pc = "flush" /\ twin.pc = "flush"
    /\ \E wok \in BOOLEAN : run' = DoFlush(run, wok) /\ twin' = DoFlush(twin, wok)
    /\ UNCHANGED io

TwinFinish ==
    /\ run.pc = "finish" /\ twin.pc = "finish"
    /\ \E n \in FinishLens, wok \in BOOLEAN :
          run' = DoFinish(run, n, wok) /\ twin' = DoFinish(twin, n, wok)
    /\ UNCHANGED io

TwinReport ==
    /\ run.pc = "report" /\ twin.pc = "report"
    /\ \E g1 \in CrcRead(run), g2 \in CrcRead(twin) :
          run' = DoReport(run, g1) /\ twin' = DoReport(twin, g2)
    /\ UNCHANGED io

TwinReturn ==
    /\ run.pc = "return" /\ twin.pc = "return"
    /\ run' = DoReturn(run) /\ twin' = DoReturn(twin)
    /\ UNCHANGED io

NextTwin ==
    \/ TwinCheckTty
    \/ TwinSize
    \/ TwinResolve
    \/ TwinLoop
    \/ TwinRead
    \/ TwinEncode
    \/ TwinFlush
    \/ TwinFinish
    \/ TwinReport
    \/ TwinReturn

SpecTwin == InitTwin /\ [][NextTwin]_vars

----------------------------------------------------------------------------
(* The bytes.  What the encoder returns is followed from the staging buffer  *)
(* to the destination: a byte is known by the call that returned it and its  *)
(* place in what that call returned.  <<call, from, len>> stands for the     *)
(* bytes from .. from + len - 1 of the output of the call-th encoder call of *)
(* the run, and call 0 for the zero bytes calloc() left.  io.mem is the      *)
(* staging buffer from offset 0 to the end of the last bytes stored,         *)
(* io.sink what write() has delivered, io.calls the calls and their lengths. *)
(* What lies in the buffer beyond the last bytes stored is not kept.         *)

RECURSIVE Prefix(_, _)
\* the first n bytes of the buffer mem: the region [0, n) a write() is given
Prefix(mem, n) ==
    IF n <= 0 THEN <<>>
    ELSE IF mem = <<>> THEN << <<0, 0, n>> >>
    ELSE LET h == Head(mem)
         IN  IF h[3] <= n
             THEN <<h>> \o Prefix(Tail(mem), n - h[3])
             ELSE << <<h[1], h[2], n>> >>

\* the number of the next encoder call (slz_encode or slz_finish) of the run
CallNo(s) == s.nenc + s.nfin + 1

\* the encoder stores the n bytes of call number call at outbuf + off
Stored(b, off, call, n) ==
    [b EXCEPT !.mem = IF n > 0 THEN Prefix(b.mem, off) \o << <<call, 0, n>> >>
                      ELSE @,
              !.calls = Append(@, <<call, n>>)]

\* write(1, outbuf, n) has delivered n bytes (n = 0: no write, or a failed one)
Written(b, n) == [b EXCEPT !.sink = @ \o Prefix(b.mem, n)]

\* the runs of Init that print their summary (-v): the bytes are the same
\* without it
InitBytes ==
    /\ run \in { r \in InitRuns : r.verbose = 1 }
    /\ twin = Idle
    /\ io = NoBytes

BytesCheckTty ==
    /\ run.pc = "tty"
    /\ \E tty \in BOOLEAN : run' = DoTty(run, tty)
    /\ UNCHANGED <<twin, io>>

BytesSize ==
    /\ run.pc = "size"
    /\ \E ok \in BOOLEAN : run' = DoSize(run, ok)
    /\ UNCHANGED <<twin, io>>

BytesResolve ==
    /\ run.pc = "resolve"
    /\ \E r \in {"ok", "fstat", "calloc"} : run' = DoResolve(run, r)
    /\ UNCHANGED <<twin, io>>

BytesLoop ==
    /\ run.pc = "loop"
    /\ run' = DoLoop(run)
    /\ UNCHANGED <<twin, io>>

BytesRead ==
    /\ run.pc = "read"
    /\ run.pnread < MaxReads
    /\ \E ok \in BOOLEAN : run' = DoRead(run, ok)
    /\ UNCHANGED <<twin, io>>

BytesEncode ==
    /\ run.pc = "encode"
    /\ \E c \in Contents :
          /\ run' = DoEncode(run, c)
          /\ io' = Stored(io, run.outblen, CallNo(run),
                          EncodeLen(run.ret, run.more, c))
    /\ UNCHANGED twin

BytesFlush ==
    /\ run.pc = "flush"
    /\ \E wok \in BOOLEAN :
          /\ run' = DoFlush(run, wok)
          /\ io' = Written(io, run'.wbytes - run.wbytes)
    /\ UNCHANGED twin

BytesFinish ==
    /\ run.pc = "finish"
    /\ \E n \in FinishLens, wok \in BOOLEAN :
          /\ run' = DoFinish(run, n, wok)
          /\ io' = Written(Stored(io, run.outblen, CallNo(run), n),
                           run'.wbytes - run.wbytes)
    /\ UNCHANGED twin

BytesReport ==
    /\ run.pc = "report"
    /\ \E g \in CrcRead(run) : run' = DoReport(run, g)
    /\ UNCHANGED <<twin, io>>

BytesReturn ==
    /\ run.pc = "return"
    /\ run' = DoReturn(run)
    /\ UNCHANGED <<twin, io>>

NextBytes ==
    \/ BytesCheckTty
    \/ BytesSize
    \/ BytesResolve
    \/ BytesLoop
    \/ BytesRead
    \/ BytesEncode
    \/ BytesFlush
    \/ BytesFinish
    \/ BytesReport
    \/ BytesReturn

SpecBytes == InitBytes /\ [][NextBytes]_vars

----------------------------------------------------------------------------
(* The run as a process that keeps taking steps: main() is sequential code,  *)
(* so whenever a step is possible one is taken (weak fairness of the whole   *)
(* next-state relation).  No read() reports an error.  The do-while of lines *)
(* 238-262 is not cut after MaxReads reads; so that a run that stays in it   *)
(* is seen to come back to the same state, the counts of reads and encodes   *)
(* stop at LiveCap and an empty chunk is one the encoder adds no bytes for.  *)

LiveCap == MaxReads

\* the record s, its counts of read() and slz_encode() calls stopped at LiveCap
Fold(s) ==
    [s EXCEPT !.nread = Min(@, LiveCap), !.pnread = Min(@, LiveCap),
              !.nenc = Min(@, LiveCap), !.penc = Min(@, LiveCap)]

\* what a chunk of ilen bytes can be
LiveContents(ilen) == IF ilen = 0 THEN {"compress", "store"} ELSE Contents

InitLive ==
    /\ run \in { r \in InitRuns : r.level <= 1 }
    /\ twin = Idle
    /\ io = NoBytes

LiveCheckTty ==
    /\ run.pc = "tty"
    /\ \E tty \in BOOLEAN : run' = DoTty(run, tty)
    /\ UNCHANGED <<twin, io>>

LiveSize ==
    /\ run.pc = "size"
    /\ \E ok \in BOOLEAN : run' = DoSize(run, ok)
    /\ UNCHANGED <<twin, io>>

LiveResolve ==
    /\ run.pc = "resolve"
    /\ \E r \in {"ok", "fstat", "calloc"} : run' = DoResolve(run, r)
    /\ UNCHANGED <<twin, io>>

LiveLoop ==
    /\ run.pc = "loop"
    /\ run' = DoLoop(run)
    /\ UNCHANGED <<twin, io>>

LiveRead ==
    /\ run.pc = "read"
    /\ run' = Fold(DoRead(run, TRUE))
    /\ UNCHANGED <<twin, io>>

LiveEncode ==
    /\ run.pc = "encode"
    /\ \E c \in LiveContents(run.ret) : run' = Fold(DoEncode(run, c))
    /\ UNCHANGED <<twin, io>>

LiveFlush ==
    /\ run.pc = "flush"
    /\ \E wok \in BOOLEAN : run' = DoFlush(run, wok)
    /\ UNCHANGED <<twin, io>>

LiveFinish ==
    /\ run.pc = "finish"
    /\ \E n \in FinishLens, wok \in BOOLEAN : run' = DoFinish(run, n, wok)
    /\ UNCHANGED <<twin, io>>

LiveReport ==
    /\ run.pc = "report"
    /\ \E g \in CrcRead(run) : run' = DoReport(run, g)
    /\ UNCHANGED <<twin, io>>

LiveReturn ==
    /\ run.pc = "return"
    /\ run' = DoReturn(run)
    /\ UNCHANGED <<twin, io>>

NextLive ==
    \/ LiveCheckTty
    \/ LiveSize
    \/ LiveResolve
    \/ LiveLoop
    \/ LiveRead
    \/ LiveEncode
    \/ LiveFlush
    \/ LiveFinish
    \/ LiveReport
    \/ LiveReturn

SpecLive == InitLive /\ [][NextLive]_vars /\ WF_vars(NextLive)

----------------------------------------------------------------------------
(* The command line (lines 127-193).  An argument is the sequence of its     *)
(* characters, argv the sequence of the arguments after argv[0].  The state  *)
(* of the parse is a record of the variables the loop sets, the arguments    *)
(* left and where main() is: "args" in the while loop, "open" at line 187,   *)
(* "parsed" at line 195, "exit".                                             *)

Digits == {"0", "1", "2", "3", "4", "5", "6", "7", "8", "9"}

\* c - '0'
DigitVal(c) ==
    LET d == <<"0", "1", "2", "3", "4", "5", "6", "7", "8", "9">>
    IN  (CHOOSE i \in 1..10 : d[i] = c) - 1

RECURSIVE Digs(_, _)
\* the value of the leading digits of str, after the digits worth acc
Digs(str, acc) ==
    IF str = <<>> \/ Head(str) \notin Digits THEN acc
    ELSE Digs(Tail(str), acc * 10 + DigitVal(Head(str)))

\* atoll() and atoi() on the values tried (no white space, no overflow): an
\* optional sign, then the leading digits; 0 when there is none
Atoll(str) ==
    IF str # <<>> /\ Head(str) = "-" THEN 0 - Digs(Tail(str), 0)
    ELSE IF str # <<>> /\ Head(str) = "+" THEN Digs(Tail(str), 0)
    ELSE Digs(str, 0)

\* the argument "-c"
Opt(c) == <<"-", c>>

\* usage(name, code), lines 71-97
usage(s, code) == Exit(s, code, "usage")

\* the parse before the first argument is looked at (lines 103-128)
ArgStart(argv) ==
    [pc |-> "args", argv |-> argv,
     toread |-> -1, loops |-> 1, console |-> 1, level |-> 3, verbose |-> 0,
     test |-> 0, format |-> SLZ_FMT_GZIP, force |-> 0, fd |-> 0,
     file |-> <<>>, exitcode |-> -1, exitat |-> ""]

\* argv++; argc-- (lines 183-184)
Shift(s) == [s EXCEPT !.argv = Tail(@)]

\* as SetCap, without the argv++ that steps over the value of -b
SetCapNoShift(s) ==
    IF Len(s.argv) < 2 THEN usage(s, 1)
    ELSE [s EXCEPT !.toread = Atoll(s.argv[2])]

\* lines 137-143: -b <size>
SetCap(s) ==
    IF Len(s.argv) < 2 THEN usage(s, 1)
    ELSE Shift([s EXCEPT !.toread = Atoll(s.argv[2])])

\* lines 154-160: -l <loops>
SetLoops(s) ==
    IF Len(s.argv) < 2 THEN usage(s, 1)
    ELSE Shift([s EXCEPT !.loops = Atoll(s.argv[2])])

\* lines 130-185: one turn of the while loop, argv not empty
DoArg(s) ==
    LET a == Head(s.argv)
    IN  IF a = <<>> \/ a[1] # "-" THEN [s EXCEPT !.pc = "open"]
        ELSE IF Len(a) >= 2 /\ a[2] \in Digits
             THEN Shift([s EXCEPT !.level = DigitVal(a[2])])
        ELSE IF a = Opt("b") THEN LET u == SetCap(s)
                                  IN  IF u.pc = "exit" THEN u ELSE Shift(u)
        ELSE IF a = Opt("c") THEN Shift([s EXCEPT !.console = 1])
        ELSE IF a = Opt("f") THEN Shift([s EXCEPT !.force = 1])
        ELSE IF a = Opt("h") THEN usage(s, 0)
        ELSE IF a = Opt("l") THEN LET u == SetLoops(s)
                                  IN  IF u.pc = "exit" THEN u ELSE Shift(u)
        ELSE IF a = Opt("n") THEN Shift(s)
        ELSE IF a = Opt("t") THEN Shift([s EXCEPT !.test = 1])
        ELSE IF a = Opt("v") THEN Shift([s EXCEPT !.verbose = @ + 1])
        ELSE IF a = Opt("D") THEN Shift([s EXCEPT !.format = SLZ_FMT_DEFLATE])
        ELSE IF a = Opt("G") THEN Shift([s EXCEPT !.format = SLZ_FMT_GZIP])
        ELSE IF a = Opt("Z") THEN Shift([s EXCEPT !.format = SLZ_FMT_ZLIB])
        ELSE usage(s, 1)

\* line 130 and one turn of the loop
DoParse(s) ==
    IF Len(s.argv) > 0 THEN DoArg(s) ELSE [s EXCEPT !.pc = "open"]

\* lines 187-193; ok is whether open() succeeds
DoOpen(s, ok) ==
    IF Len(s.argv) > 0
    THEN IF ok
         THEN [s EXCEPT !.fd = 3, !.file = Head(s.argv), !.pc = "parsed"]
         ELSE Exit(s, 1, "open")
    ELSE [s EXCEPT !.pc = "parsed"]

\* what a command line is made of: an option, an option and its value, a
\* file name; -x is an option zenc does not have, -b alone lacks its value
Units ==
    { <<Opt("1")>>, <<Opt("9")>>, <<Opt("b"), <<"1", "2">>>>, <<Opt("b")>>,
      <<Opt("l"), <<"2">>>>, <<Opt("c")>>, <<Opt("f")>>, <<Opt("h")>>,
      <<Opt("n")>>, <<Opt("t")>>, <<Opt("v")>>, <<Opt("D")>>, <<Opt("G")>>,
      <<Opt("Z")>>, <<Opt("x")>>, <<<<"f">>>> }

UnitLists == UNION { [1..n -> Units] : n \in 0..MaxArgs }

RECURSIVE Flatten(_)
\* the arguments of a sequence of units
Flatten(us) == IF us = <<>> THEN <<>> ELSE Head(us) \o Flatten(Tail(us))

\* us with its units i and i + 1 exchanged
Swap(us, i) ==
    [j \in 1..Len(us) |-> IF j = i THEN us[i + 1]
                          ELSE IF j = i + 1 THEN us[i] ELSE us[j]]

\* the setting a unit gives a value to
Kind(u) ==
    LET a == u[1]
    IN  IF Len(a) >= 2 /\ a[1] = "-" /\ a[2] \in Digits THEN "level"
        ELSE IF a = Opt("b") THEN "cap"
        ELSE IF a = Opt("l") THEN "loops"
        ELSE IF a \in {Opt("D"), Opt("G"), Opt("Z")} THEN "format"
        ELSE "flag"

\* the last unit of us that gives setting k a value
LastOf(us, k) ==
    LET at == { i \in 1..Len(us) : Kind(us[i]) = k }
    IN  IF at = {} THEN <<>>
        ELSE us[CHOOSE i \in at : \A j \in at : j <= i]

\* us and vs, made of the same units, end each setting with the same unit
SameSettings(us, vs) ==
    \A k \in {"level", "cap", "loops", "format"} : LastOf(us, k) = LastOf(vs, k)

\* the orders of us tried against us: itself, and two neighbours exchanged
\* (any other order is a sequence of such exchanges)
Orders(us) ==
    { vs \in {us} \cup { Swap(us, i) : i \in 1..(Len(us) - 1) } :
         SameSettings(us, vs) }

\* an option of the usage text, -b and -l with their value
ValidOption(u) ==
    /\ u[1] # <<>> /\ u[1][1] = "-"
    /\ \/ Len(u[1]) >= 2 /\ u[1][2] \in Digits
       \/ u[1] \in { Opt(c) : c \in {"b", "c", "f", "h", "l", "n", "t", "v",
                                     "D", "G", "Z"} }
    /\ Len(u) = (IF u[1] \in {Opt("b"), Opt("l")} THEN 2 ELSE 1)

\* a file name
FileName(u) == Len(u) = 1 /\ (u[1] = <<>> \/ u[1][1] # "-")

\* line 75: [option]* [file]
WellFormed(us) ==
    \A i \in 1..Len(us) :
        \/ ValidOption(us[i])
        \/ i = Len(us) /\ FileName(us[i])

\* `run` parses one command line and `twin` the same units in another order;
\* each keeps its units in `units`
InitArgs ==
    /\ \E us \in UnitLists : \E vs \in Orders(us) :
          /\ run = ArgStart(Flatten(us)) @@ [units |-> us]
          /\ twin = ArgStart(Flatten(vs)) @@ [units |-> vs]
    /\ io = NoBytes

\* both processes go once round the while loop, where they are still in it
ArgsParse ==
    /\ run.pc = "args" \/ twin.pc = "args"
    /\ run' = IF run.pc = "args" THEN DoParse(run) ELSE run
    /\ twin' = IF twin.pc = "args" THEN DoParse(twin) ELSE twin
    /\ UNCHANGED io

\* both processes open their file, if they have one; the files are there for
\* both or for none
ArgsOpen ==
    /\ run.pc # "args" /\ twin.pc # "args"
    /\ run.pc = "open" \/ twin.pc = "open"
    /\ \E ok \in BOOLEAN :
          /\ run' = IF run.pc = "open" THEN DoOpen(run, ok) ELSE run
          /\ twin' = IF twin.pc = "open" THEN DoOpen(twin, ok) ELSE twin
    /\ UNCHANGED io

NextArgs ==
    \/ ArgsParse
    \/ ArgsOpen

SpecArgs == InitArgs /\ [][NextArgs]_vars

----------------------------------------------------------------------------
(* Properties *)

\* main() has returned (line 274)
Returned(s) == s.pc = "exit" /\ s.exitat = "return"

\* the sizes of lines 201-208 have been computed
Sized(s) == s.pc \notin {"tty", "size"} /\ s.exitat # "tty"

\* outbuf has been allocated
Allocated(s) == Sized(s) /\ s.exitat # "calloc outbuf"

\* C1: the fill level of the staging buffer (outblen) never exceeds the bytes
\* allocated for it (2 x block size + 4096), the encoder returning at most the
\* chunk length plus EncOverhead and the trailer being at most FinOverhead
NoOverflow == run.outblen <= run.outbcap

\* C1 witness: the buffer holds two stored blocks and the largest overhead
NoOverflowWitness ==
    /\ run.block_size > 0
    /\ run.pnread >= 2
    /\ run.outblen = 2 * run.block_size + EncOverhead

\* C9: with a pass count of zero nothing is initialized, read, encoded,
\* finished or written, and both totals stay 0 up to the end of the process
ZeroLoopsNoWork ==
    run.loops0 = 0 =>
        /\ run.ninit = 0 /\ run.nread = 0 /\ run.nenc = 0
        /\ run.nfin = 0 /\ run.nwrite = 0 /\ run.pass = 0
        /\ run.totin = 0 /\ run.totout = 0
        /\ run.strm.state = "uninit"

\* C9 witness: main() has returned from a run with -l 0
ZeroLoopsWitness == run.loops0 = 0 /\ Returned(run) /\ run.exitcode = 0

\* the sizes of a level, once computed
SizesRight ==
    Sized(run) =>
        /\ run.block_size = LevelBlock(run.level)
        /\ Allocated(run) => run.outbcap = 2 * run.block_size + 4096

\* the sizes do not change once computed
SizesKept ==
    Sized(run) =>
        /\ run'.block_size = run.block_size
        /\ run'.outbsize = run.outbsize
        /\ run'.outbcap = run.outbcap

\* C10: for every level the block size is 32 KiB (level <= 1), 128 KiB (level
\* 2) or 1 MiB (level >= 3), the staging buffer holds 2 x block size + 4 KiB,
\* and both are computed before the first pass and never change afterwards
BufferSizing == []SizesRight /\ [][SizesKept]_vars

\* C10 witness: a second pass has begun at level 2, the sizes being those of
\* level 2
BufferSizingWitness ==
    /\ run.level = 2 /\ run.pass = 2 /\ run.pc = "read"
    /\ run.block_size = 131072 /\ run.outbcap = 266240

\* C2: after N >= 1 passes totin is N times the totin of a single pass (the
\* first pass) over the same input
TotinScales ==
    (Returned(run) /\ run.loops0 >= 1) =>
        run.totin = run.loops0 * run.passin[1]

\* the process with -t never writes
TwinSilent == twin.nwrite = 0 /\ twin.wbytes = 0

\* the two processes are at the same place, unless the one without -t has
\* been refused a terminal
TwinInStep == run.exitat # "tty" => twin.pc = run.pc

\* at the return of main() both have the same totals and, if a pass was made,
\* the same checksum, also in the summary line
TwinTotals ==
    Returned(run) =>
        /\ Returned(twin)
        /\ twin.totin = run.totin
        /\ twin.totout = run.totout
        /\ twin.summary.printed = run.summary.printed
        /\ twin.summary.totin = run.summary.totin
        /\ twin.summary.totout = run.summary.totout
        /\ run.loops0 >= 1 =>
              /\ twin.strm.crc32 = run.strm.crc32
              /\ twin.summary.crc32 = run.summary.crc32

\* C3: a run with -t ends with the same totin, totout and checksum as the run
\* without -t on the same input, level, format, byte cap and pass count (a run
\* that main() returns from; the checksum of a run that made a pass), and
\* writes nothing
TestModeSame == TwinSilent /\ TwinInStep /\ TwinTotals

\* C3 witness: both have returned, the run without -t has flushed in the loop
\* and written all its output, the run with -t has counted the same output
TestModeSameWitness ==
    /\ Returned(run) /\ Returned(twin)
    /\ run.nflush >= 1 /\ run.totout > 0 /\ run.wbytes = run.totout
    /\ twin.totout = run.totout /\ twin.wbytes = 0

\* the flag is set by a failed write, and main() returns it
ErrorFlag ==
    /\ run.wfailed <=> run.error = 1
    /\ run.pc = "exit" /\ run.wfailed => run.exitcode # 0
    /\ Returned(run) => run.exitcode = (IF run.wfailed THEN 1 ELSE 0)

\* a run that returns has made every pass to its last chunk and counted all
\* that was read and all that the encoder returned, a write having failed or not
AllCounted ==
    Returned(run) =>
        /\ run.pass = run.loops0
        /\ run.nfin = run.loops0
        /\ run.loops0 >= 1 => run.more = 0
        /\ run.totin = run.fpos
        /\ run.totout = run.produced

\* once a write has failed the flag stays and no write is attempted
ErrorSticks ==
    run.wfailed =>
        /\ run'.wfailed /\ run'.error = 1
        /\ run'.nwrite = run.nwrite
        /\ run'.wbytes = run.wbytes

\* C4: once a write fails the error flag stays set, no further write is
\* attempted, the remaining chunks and passes are still read, encoded and
\* counted, and main() returns non-zero; it returns 0 if no write failed
StickyError == [](ErrorFlag /\ AllCounted) /\ [][ErrorSticks]_vars

\* C4 witness: the first write failed in the loop of the first pass, the rest
\* of that pass and a second pass were made, and main() returned 1
StickyErrorWitness ==
    /\ Returned(run) /\ run.exitcode = 1
    /\ run.wfailed /\ run.nwrite = 1
    /\ run.pass = 2 /\ run.nflush >= 2 /\ run.nenc >= 3

\* a pass has been made, or is being made, that began with nothing to consume
InEmptyPass == run.pass >= 1 /\ run.p_toread = 0

\* the pass is over
PassDone(s) == s.pc \in {"loop", "report", "return"} \/ Returned(s)

\* C5: a pass that begins with zero bytes to consume makes exactly one encode
\* call, of zero bytes with the final flag (more = 0), then exactly one finish;
\* totin is unchanged (0 with an empty source or -b 0); without -t and without
\* write failure the non-empty output of encode and finish is written
EmptyPass ==
    InEmptyPass =>
        /\ run.totin = run.p_totin
        /\ run.toread0 = 0 => run.totin = 0
        /\ run.pnread <= 1 /\ run.penc <= 1 /\ run.pfin <= 1
        /\ run.penc = 1 => (run.pnread = 1 /\ run.ret = 0 /\ run.more = 0)
        /\ run.pfin = 1 => run.penc = 1
        /\ PassDone(run) =>
              /\ run.penc = 1 /\ run.pfin = 1
              /\ (~run.test /\ ~run.wfailed) =>
                    /\ run.pnwrite = 1
                    /\ run.pprod > 0
                    /\ run.pwbytes = run.pprod

\* C5 witness: the first pass over an empty input is over and its output has
\* been written
EmptyPassWitness ==
    /\ InEmptyPass /\ run.pass = 1 /\ run.toread0 = 0 /\ run.pc = "loop"
    /\ ~run.test /\ run.pwbytes > 0 /\ run.totin = 0

\* C6: the summary line never divides by a total input of zero
RatioGuarded == run.summary.printed => run.summary.divisor # 0

\* a failed read() ends the process with status 2
ReadFailExit ==
    run.readfailed =>
        run.pc = "exit" /\ run.exitat = "read" /\ run.exitcode = 2

\* the step of the failed read() does nothing else, and no step follows it
ReadFailStep ==
    /\ ~run.readfailed
    /\ run'.readfailed =>
          /\ run'.nread = run.nread + 1
          /\ run'.nenc = run.nenc /\ run'.nfin = run.nfin
          /\ run'.nwrite = run.nwrite /\ run'.wbytes = run.wbytes
          /\ run'.ninit = run.ninit
          /\ run'.totin = run.totin /\ run'.totout = run.totout
          /\ run'.outblen = run.outblen

\* C7: a read error ends the process at once with status 2: no read, encode,
\* finish or write follows, and the bytes in the staging buffer stay unwritten
ReadFailureAborts == []ReadFailExit /\ [][ReadFailStep]_vars

\* C7 witness: a read failed while the staging buffer held unwritten bytes
ReadFailureWitness ==
    /\ run.readfailed /\ run.exitcode = 2
    /\ run.outblen > 0 /\ run.nwrite = 0 /\ ~run.test

\* C8: nothing is written to a terminal without -f: without -f and -t the
\* process exits with status 1 before anything is read or encoded, and with -t
\* nothing is written at all
TerminalSafe ==
    /\ (run.tty /\ ~run.force) => (run.nwrite = 0 /\ run.wbytes = 0)
    /\ (run.tty /\ ~run.force /\ ~run.test) =>
          /\ run.pc = "exit" /\ run.exitat = "tty" /\ run.exitcode = 1
          /\ run.ninit = 0 /\ run.nread = 0 /\ run.nenc = 0 /\ run.nfin = 0
    /\ run.test => (run.nwrite = 0 /\ run.wbytes = 0)

\* C8 witness: the process has been refused the terminal
TerminalSafeWitness ==
    /\ run.tty /\ ~run.force /\ ~run.test
    /\ run.pc = "exit" /\ run.exitcode = 1

\* a pass is at its start: slz_init() is done, nothing is read yet
PassStart(s) == s.pass >= 1 /\ s.pc = "read" /\ s.pnread = 0

\* C12: at the start of every pass the remaining-bytes counter has the value
\* it was given before the first pass, and the source is at its beginning
PassStartsFresh ==
    PassStart(run) => (run.toread = run.toread0 /\ run.fpos = 0)

\* a read() has returned and its chunk is about to be encoded: the length
\* asked for is the smaller of the remainder and a block
RequestLength ==
    run.pc = "encode" => run.count = Min(run.toread + run.ret, run.block_size)

\* C13: the length asked of read() is min(remaining, block size), the chunk is
\* marked final exactly when remaining <= block size, and an input of at most
\* one block is consumed by exactly one read
FinalWhenLe ==
    /\ RequestLength
    /\ run.pc = "encode" =>
          (run.more = 0 <=> run.toread + run.ret <= run.block_size)
    /\ (run.pass >= 1 /\ PassDone(run) /\ run.p_toread <= run.block_size) =>
          run.pnread = 1

\* the step from the request to the encoder call
ChunkRequest ==
    (run.pc = "read" /\ run'.pc = "encode") =>
        /\ run'.count = Min(run.toread, run.block_size)
        /\ run'.more \in {0, 1}
        /\ run'.more = 0 <=> run.toread < run.block_size

\* a pass over less than a block makes one read, a pass over exactly one block
\* makes two, the second one of no bytes and final
ReadsPerPass ==
    (run.pass >= 1 /\ PassDone(run)) =>
        /\ run.more = 0
        /\ run.p_toread < run.block_size => run.pnread = 1
        /\ run.p_toread = run.block_size => (run.pnread = 2 /\ run.ret = 0)

\* C13 as amended: the length asked of read() is min(remaining, block size),
\* the chunk is marked final exactly when remaining < block size; an input of
\* less than one block is consumed by one read, marked final, and an input of
\* exactly one block by one read of a block and a final read of no bytes
FinalWhenLess == [](RequestLength /\ ReadsPerPass) /\ [][ChunkRequest]_vars

\* C13 witness: a pass over exactly one block is over after two reads
FinalWhenLessWitness ==
    /\ run.pass = 1 /\ run.pc = "loop" /\ run.p_toread = run.block_size
    /\ run.totin = run.block_size /\ run.pnread = 2 /\ run.penc = 2

\* the step of lines 254-261, the buffer taken to be full when the fill and
\* one block exceed limit
FlushStep(limit) ==
    (run.pc = "flush" /\ run'.pc # "flush") =>
        IF run.outblen + run.block_size > limit
        THEN /\ run'.outblen = 0
             /\ run'.totout = run.totout + run.outblen
             /\ run'.nflush = run.nflush + 1
             /\ (~run.test /\ run.error = 0) =>
                   /\ run'.nwrite = run.nwrite + 1
                   /\ run'.error = 0 => run'.wbytes = run.wbytes + run.outblen
             /\ (run.test \/ run.error # 0) =>
                   (run'.nwrite = run.nwrite /\ run'.wbytes = run.wbytes)
        ELSE /\ run'.outblen = run.outblen
             /\ run'.totout = run.totout
             /\ run'.nflush = run.nflush
             /\ run'.nwrite = run.nwrite /\ run'.wbytes = run.wbytes

\* C14: after each chunk a flush happens iff fill + block size exceeds the
\* capacity 2 x block size + 4 KiB; a flush hands the bytes [0, fill) to the
\* sink, adds the fill to totout and resets it; otherwise the fill is kept
FlushByCapacity == [][FlushStep(2 * run.block_size + 4096)]_vars

\* C14 as amended: the same, the flush happening iff fill + block size
\* exceeds 2 x block size (outbsize, without the 4 KiB of headroom)
FlushByOutbsize == [][FlushStep(2 * run.block_size)]_vars

\* C14 witness: the first chunk of a pass came back one block and the largest
\* overhead long and has been flushed, though it left a block of room within
\* the 2 x block size + 4 KiB allocated
FlushByOutbsizeWitness ==
    /\ run.pass = 1 /\ run.pc = "read" /\ run.pnread = 1 /\ run.nflush = 1
    /\ run.outblen = 0 /\ run.totout = run.block_size + EncOverhead
    /\ run.totout + run.block_size <= run.outbcap

\* the number of bytes to consume is known (lines 219-225)
Resolved(s) == s.toread0 >= 0

RemainingInRange ==
    Resolved(run) => (0 <= run.toread /\ run.toread <= run.toread0)

RemainingStep ==
    Resolved(run) =>
        /\ run'.toread <= run.toread
        /\ run.toread - run'.toread = run'.totin - run.totin
        /\ run'.nread = run.nread => run'.toread = run.toread
        /\ (run'.nread > run.nread /\ ~run'.readfailed) =>
              /\ 0 <= run'.ret /\ run'.ret <= run.toread
              /\ run'.toread = run.toread - run'.ret

\* C20: once resolved, the remaining-bytes counter is never negative and never
\* increases: each read takes off it exactly the bytes returned, never more
\* than remain, and adds the same to totin
RemainingMonotone == []RemainingInRange /\ [][RemainingStep]_vars

\* C20 witness: a read returned fewer bytes than asked for, and some remain
RemainingMonotoneWitness ==
    /\ run.pc = "encode" /\ 0 < run.ret /\ run.ret < run.count
    /\ run.toread > 0 /\ run.totin = run.ret

\* the calls made so far in the pass are in order: at most one chunk carried
\* the final flag, slz_finish() came after it, and a session is live from its
\* slz_init() to its slz_finish(); a pass that ran to its end made exactly
\* one final call and one slz_finish()
SessionShape ==
    /\ run.ninit = run.pass
    /\ run.pfinal <= 1 /\ run.pfin <= 1 /\ run.pfinal <= run.penc
    /\ run.pfin = 1 => run.pfinal = 1
    /\ run.ninit - run.nfin \in {0, 1}
    /\ run.strm.state = "live" <=> run.ninit - run.nfin = 1
    /\ (run.pass >= 1 /\ PassDone(run)) =>
          (run.pfinal = 1 /\ run.pfin = 1 /\ run.nfin = run.pass)

\* each call is made in a state that allows it
SessionStep ==
    /\ run'.nenc > run.nenc =>
          /\ run'.nenc = run.nenc + 1
          /\ run.strm.state = "live" /\ run.pfinal = 0 /\ run.pfin = 0
    /\ run'.nfin > run.nfin =>
          /\ run'.nfin = run.nfin + 1
          /\ run.strm.state = "live" /\ run.pfinal = 1 /\ run.pfin = 0
          /\ run'.strm.state # "live"
    /\ run'.ninit > run.ninit =>
          /\ run'.ninit = run.ninit + 1
          /\ run.strm.state # "live" /\ run.ninit = run.nfin

\* C15: in every pass that runs to its end the encoder calls are slz_init,
\* encode calls with the final flag clear, exactly one encode call with the
\* flag set, then exactly one finish; no call follows finish on a session and
\* a session is initialized only after the previous one's finish, so at most
\* one is live
SessionOrder == []SessionShape /\ [][SessionStep]_vars

\* C15 witness: two passes ended, the first after chunks with the flag clear
SessionOrderWitness ==
    /\ Returned(run) /\ run.loops0 = 2 /\ run.nfin = 2
    /\ run.nenc >= 4 /\ run.strm.state = "finished"

PassStartReset ==
    PassStart(run) =>
        /\ run.outblen = 0
        /\ run.strm.state = "live"
        /\ run.strm.format = run.format
        /\ run.strm.level \in {0, 1}
        /\ run.strm.level = 0 <=> run.level = 0

LevelZeroFull ==
    (run.level = 0 /\ run.pass >= 1 /\ PassDone(run)) =>
        /\ run.pnread >= 1 /\ run.penc = run.pnread
        /\ run.pfinal = 1 /\ run.pfin = 1
        /\ MayWrite(run.console, run.test, run.error) => run.pnwrite >= 1

\* C16: at the start of every pass the fill offset is 0 and a fresh session
\* exists with the selected format, compression off exactly when the level is
\* 0; a pass at level 0 makes its reads, encodes, finish and write as any other
FreshPass == PassStartReset /\ LevelZeroFull

\* C16 witness: the second pass at level 0 starts; the first left its output
\* behind it
FreshPassWitness ==
    /\ PassStart(run) /\ run.pass = 2 /\ run.level = 0
    /\ run.totout > 0 /\ run.nfin = 1

\* lines 264-268 as one step; the trailer is some length slz_finish() returns
FinishStep ==
    (run.pc = "finish" /\ run'.pc # "finish") =>
        /\ run'.outblen - run.outblen \in FinishLens
        /\ run'.totout = run.totout + run'.outblen
        /\ run'.produced - run.produced = run'.outblen - run.outblen
        /\ (~run.test /\ run.error = 0) =>
              /\ run'.nwrite = run.nwrite + 1
              /\ run'.error = 0 => run'.wbytes = run.wbytes + run'.outblen
        /\ (run.test \/ run.error # 0) =>
              (run'.nwrite = run.nwrite /\ run'.wbytes = run.wbytes)

\* a run without test mode and without a failed write made one write per
\* flush and one per finish, and wrote what the encoder produced
WritesCounted ==
    (run.pass >= 1 /\ PassDone(run) /\ ~run.test /\ ~run.wfailed) =>
        /\ run.nwrite = run.nflush + run.nfin
        /\ run.wbytes = run.produced /\ run.totout = run.produced

\* C17: the bytes slz_finish() returns are appended at the fill offset,
\* counted in totout once, and written at the bottom of the pass whatever the
\* fill is: without test mode and without an earlier failed write exactly one
\* write of [0, fill offset), trailer included, follows finish in each pass
TrailerFlushed == []WritesCounted /\ [][FinishStep]_vars

\* C17 witness: a pass ended with its only write, of a fill far below the
\* flush threshold
TrailerFlushedWitness ==
    /\ run.pass = 1 /\ run.pc = "loop" /\ ~run.test /\ ~run.wfailed
    /\ run.nflush = 0 /\ run.pnwrite = 1 /\ run.wbytes = run.outblen
    /\ run.outblen > FinOverhead /\ run.outblen + run.block_size <= run.outbsize

RECURSIVE SumLen(_)
\* the sum of the lengths the calls returned
SumLen(calls) ==
    IF calls = <<>> THEN 0 ELSE Head(calls)[2] + SumLen(Tail(calls))

\* what the calls returned, one after the other in call order
Concat(calls) ==
    LET some == SelectSeq(calls, LAMBDA c : c[2] > 0)
    IN  [i \in 1..Len(some) |-> <<some[i][1], 0, some[i][2]>>]

\* C19: when main returns, totout is the sum of the lengths returned by all
\* slz_encode and slz_finish calls of all passes, with or without test mode
\* and failed writes; without test mode and with every write successful, the
\* bytes delivered are those the calls returned, in call order, each once
OutputExact ==
    Returned(run) =>
        /\ Len(io.calls) = run.nenc + run.nfin
        /\ run.totout = SumLen(io.calls)
        /\ (~run.test /\ ~run.wfailed) => io.sink = Concat(io.calls)

\* C19 witness: two passes with flushes inside the pass and at its bottom
\* have delivered the output of at least six calls
OutputExactWitness ==
    /\ Returned(run) /\ ~run.test /\ ~run.wfailed /\ run.loops0 = 2
    /\ run.nflush >= 2 /\ run.nwrite >= 4
    /\ Len(io.sink) >= 6 /\ io.sink = Concat(io.calls)

\* C18: every started pass reaches slz_finish() and the process exits, for
\* any pass count >= 0, any byte cap and any source whose reads report no
\* error, also when read() returns fewer bytes than asked for, or none
AlwaysEnds ==
    /\ [](PassStart(run) => <>(run.pfin = 1))
    /\ <>(run.pc = "exit")

\* the parse of s is over: main() is at line 195 or has exited
Parsed(s) == s.pc \in {"parsed", "exit"}

\* what the parse of s came to: the exit status, or the configuration
Outcome(s) ==
    IF s.pc = "exit" THEN [exit |-> s.exitcode]
    ELSE [level |-> s.level, toread |-> s.toread, loops |-> s.loops,
          console |-> s.console, test |-> s.test, force |-> s.force,
          verbose |-> s.verbose, format |-> s.format, fd |-> s.fd,
          file |-> s.file]

\* C11: the configuration and the exit outcome depend only on the flags
\* present and on the last occurrence of each repeated setting, not on the
\* position of the flags relative to each other or to the file argument
OrderFree ==
    (Parsed(run) /\ Parsed(twin)) => Outcome(run) = Outcome(twin)

\* C11 as amended: the same for command lines of the form [option]* [file],
\* made of options zenc has, -b and -l followed by their value, and at most
\* one file name, in last place
OrderFreeOptions ==
    (/\ Parsed(run) /\ Parsed(twin)
     /\ WellFormed(run.units) /\ WellFormed(twin.units)) =>
        Outcome(run) = Outcome(twin)

\* C11 witness: -b 12 and -t in one order and in the other, before a file
OrderFreeOptionsWitness ==
    /\ run.pc = "parsed" /\ twin.pc = "parsed"
    /\ WellFormed(run.units) /\ WellFormed(twin.units)
    /\ run.units # twin.units
    /\ run.toread = 12 /\ run.test = 1 /\ run.file = <<"f">>

====
